---- MODULE Spec2Model ----
(***************************************************************************)
(* Model of the behave step implementations of the uProtocol TCK test      *)
(* manager (test_manager/features/steps/tck_step_implementations.py).      *)
(*                                                                         *)
(* Python strings are sequences of one-character strings.  Python values   *)
(* are records with a single field that names the type: [str |-> s],       *)
(* [int |-> n], [bool |-> b], [none |-> TRUE], [float |-> <<m, e>>],       *)
(* [bytes |-> s], [dict |-> items]; a raised exception is [raise |-> e].   *)
(* A dict is the sequence of its <<key, value>> items in insertion order.  *)
(***************************************************************************)
EXTENDS Integers, Sequences, FiniteSets, TLC

VARIABLES
    ue_tracker,     \* context.ue_tracker: sequence of <<sdk_name, transport, uri>>
    platform,       \* sys.platform of the host
    connected,      \* names for which context.tm.has_sdk_connection is true
    ues,            \* context.ues: base sdk name -> launched processes
    tm_request,     \* the request context.tm.request dispatched last
    json_dict,      \* context.json_dict
    rust_sender,    \* context.rust_sender
    response_data,  \* context.response_data
    ue,             \* context.ue
    action,         \* context.action
    pc,             \* position of the running create step
    sleeps,         \* time.sleep(1) calls of the running liveness poll
    last,           \* the step that ran last, its arguments and its outcome
    fn_in,          \* input of the pure function under check
    fn_out          \* its result

vars == <<ue_tracker, platform, connected, ues, tm_request, json_dict, rust_sender,
          response_data, ue, action, pc, sleeps, last, fn_in, fn_out>>

ctx_vars == <<json_dict, rust_sender, response_data, ue, action>>
env_vars == <<ue_tracker, platform, connected, ues, tm_request>>
fn_vars == <<fn_in, fn_out>>

----------------------------------------------------------------------------
(* Python values *)

PyStr(s) == [str |-> s]
PyInt(n) == [int |-> n]
PyBool(b) == [bool |-> b]
PyNone == [none |-> TRUE]
PyFloat(m, e) == [float |-> <<m, e>>]
PyBytes(s) == [bytes |-> s]
PyDict(items) == [dict |-> items]
Raise(e) == [raise |-> e]
Unset == [unset |-> TRUE]

IsStr(v) == "str" \in DOMAIN v
IsInt(v) == "int" \in DOMAIN v
IsBool(v) == "bool" \in DOMAIN v
IsDict(v) == "dict" \in DOMAIN v
IsRaise(v) == "raise" \in DOMAIN v
IsUnset(v) == "unset" \in DOMAIN v

----------------------------------------------------------------------------
(* str methods *)

Digits == <<"0", "1", "2", "3", "4", "5", "6", "7", "8", "9">>
IsDigit(c) == \E i \in 1..Len(Digits) : Digits[i] = c
DigitVal(c) == (CHOOSE i \in 1..Len(Digits) : Digits[i] = c) - 1

MatchAt(s, sub, i) ==
    /\ i >= 1
    /\ i + Len(sub) - 1 <= Len(s)
    /\ \A j \in 1..Len(sub) : s[i + j - 1] = sub[j]

\* str.find from position `from` (1-based); 0 when absent
Find(s, sub, from) ==
    IF \E i \in from..(Len(s) + 1) : MatchAt(s, sub, i)
    THEN CHOOSE i \in from..(Len(s) + 1) :
            /\ MatchAt(s, sub, i)
            /\ \A j \in from..(i - 1) : ~MatchAt(s, sub, j)
    ELSE 0

\* `sub in s`
Contains(s, sub) == Find(s, sub, 1) # 0

EndsWith(s, suffix) == MatchAt(s, suffix, Len(s) - Len(suffix) + 1)

\* s[i:] for a 0-based i >= 0
DropFirst(s, i) == IF i >= Len(s) THEN <<>> ELSE SubSeq(s, i + 1, Len(s))

RECURSIVE Split(_, _)
\* s.split(sep) for a non-empty sep
Split(s, sep) ==
    LET i == Find(s, sep, 1)
    IN IF i = 0 THEN <<s>>
       ELSE <<SubSeq(s, 1, i - 1)>> \o Split(DropFirst(s, i + Len(sep) - 1), sep)

RECURSIVE Join(_, _)
Join(parts, sep) ==
    IF Len(parts) = 0 THEN <<>>
    ELSE IF Len(parts) = 1 THEN parts[1]
    ELSE parts[1] \o sep \o Join(Tail(parts), sep)

\* s.replace(old, new) for a non-empty old
Replace(s, old, new) == Join(Split(s, old), new)

IsSpace(c) == c \in {" ", "\t", "\n"}

RECURSIVE LStrip(_)
LStrip(s) == IF Len(s) > 0 /\ IsSpace(s[1]) THEN LStrip(Tail(s)) ELSE s

RECURSIVE RStrip(_)
RStrip(s) ==
    IF Len(s) > 0 /\ IsSpace(s[Len(s)]) THEN RStrip(SubSeq(s, 1, Len(s) - 1)) ELSE s

Strip(s) == LStrip(RStrip(s))

----------------------------------------------------------------------------
(* dict operations; d is the item sequence *)

HasKey(d, k) == \E i \in 1..Len(d) : d[i][1] = k

\* d[k] for a key that is present
Get(d, k) == d[CHOOSE i \in 1..Len(d) : d[i][1] = k][2]

\* d[k] = v : an existing key keeps its position
DictSet(d, k, v) ==
    IF HasKey(d, k)
    THEN [i \in 1..Len(d) |-> IF d[i][1] = k THEN <<k, v>> ELSE d[i]]
    ELSE Append(d, <<k, v>>)

RECURSIVE DictUpdate(_, _)
\* d.update(e)
DictUpdate(d, e) ==
    IF Len(e) = 0 THEN d
    ELSE DictUpdate(DictSet(d, e[1][1], e[1][2]), Tail(e))

Keys(d) == {d[i][1] : i \in 1..Len(d)}

RECURSIVE PyEq(_, _)
\* a == b : dicts compare without regard to insertion order
PyEq(a, b) ==
    IF IsDict(a) /\ IsDict(b)
    THEN /\ Keys(a.dict) = Keys(b.dict)
         /\ \A k \in Keys(a.dict) : PyEq(Get(a.dict, k), Get(b.dict, k))
    ELSE a = b

----------------------------------------------------------------------------
(* Path Codec: flatten_dict, unflatten_dict *)

Dot == <<".">>

RECURSIVE FlattenItems_NoSep(_, _, _, _, _)
\* FlattenItems with the separator left out of the joined key
FlattenItems_NoSep(nested_dict, parent_key, sep, i, flattened) ==
    IF i > Len(nested_dict) THEN flattened
    ELSE LET k == nested_dict[i][1]
             v == nested_dict[i][2]
             new_key == IF parent_key # <<>> THEN parent_key \o k ELSE k
         IN FlattenItems_NoSep(nested_dict, parent_key, sep, i + 1,
                IF IsDict(v)
                THEN DictUpdate(flattened, FlattenItems_NoSep(v.dict, new_key, sep, 1, <<>>))
                ELSE DictSet(flattened, new_key, v))

RECURSIVE FlattenItems(_, _, _, _, _)
\* the loop of flatten_dict from item i on, `flattened` being built so far
FlattenItems(nested_dict, parent_key, sep, i, flattened) ==
    IF i > Len(nested_dict) THEN flattened
    ELSE LET k == nested_dict[i][1]
             v == nested_dict[i][2]
             new_key == IF parent_key # <<>> THEN parent_key \o sep \o k ELSE k
         IN FlattenItems(nested_dict, parent_key, sep, i + 1,
                IF IsDict(v)
                THEN DictUpdate(flattened, FlattenItems(v.dict, new_key, sep, 1, <<>>))
                ELSE DictSet(flattened, new_key, v))

flatten_dict(nested_dict, parent_key, sep) ==
    FlattenItems(nested_dict, parent_key, sep, 1, <<>>)

RECURSIVE SetPath_FreshChild(_, _, _)
\* SetPath with a new dict at every intermediate key, whatever it held
SetPath_FreshChild(temp, parts, value) ==
    IF Len(parts) = 1 THEN PyDict(DictSet(temp, parts[1], value))
    ELSE PyDict(DictSet(temp, parts[1], SetPath_FreshChild(<<>>, Tail(parts), value)))

RECURSIVE SetPath(_, _, _)
\* the inner loop of unflatten_dict and the leaf assignment, for one key:
\* the dict `temp` after the walk along `parts`, or the TypeError that
\* Python raises when the walk meets a value that is not a dict
SetPath(temp, parts, value) ==
    IF Len(parts) = 1 THEN PyDict(DictSet(temp, parts[1], value))
    ELSE LET part == parts[1]
             child == IF HasKey(temp, part) THEN Get(temp, part) ELSE PyDict(<<>>)
         IN IF ~IsDict(child) THEN Raise("TypeError")
            ELSE LET sub == SetPath(child.dict, Tail(parts), value)
                 IN IF IsRaise(sub) THEN sub
                    ELSE PyDict(DictSet(temp, part, sub))

RECURSIVE UnflattenItems(_, _, _, _)
UnflattenItems(d, delimiter, i, unflattened) ==
    IF i > Len(d) THEN PyDict(unflattened)
    ELSE LET r == SetPath(unflattened, Split(d[i][1], delimiter), d[i][2])
         IN IF IsRaise(r) THEN r
            ELSE UnflattenItems(d, delimiter, i + 1, r.dict)

\* PyDict(nested) or Raise("TypeError")
unflatten_dict(d, delimiter) == UnflattenItems(d, delimiter, 1, <<>>)

----------------------------------------------------------------------------
(* str(v), int(s), float(s), bool(v) *)

RECURSIVE NatToStr(_)
NatToStr(n) ==
    IF n < 10 THEN <<Digits[n + 1]>>
    ELSE NatToStr(n \div 10) \o <<Digits[(n % 10) + 1]>>

\* str(v) for an int, a bool or a str
ToStr(v) ==
    IF IsInt(v) THEN (IF v.int < 0 THEN <<"-">> \o NatToStr(0 - v.int) ELSE NatToStr(v.int))
    ELSE IF IsBool(v) THEN (IF v.bool THEN <<"T", "r", "u", "e">> ELSE <<"F", "a", "l", "s", "e">>)
    ELSE v.str

\* digits, single underscores allowed between them
IsDigitRun(s) ==
    /\ Len(s) > 0
    /\ IsDigit(s[1]) /\ IsDigit(s[Len(s)])
    /\ \A i \in 1..Len(s) : IsDigit(s[i]) \/ s[i] = "_"
    /\ \A i \in 1..(Len(s) - 1) : ~(s[i] = "_" /\ s[i + 1] = "_")

RECURSIVE DigitRunVal(_, _)
DigitRunVal(s, acc) ==
    IF Len(s) = 0 THEN acc
    ELSE DigitRunVal(Tail(s), IF s[1] = "_" THEN acc ELSE 10 * acc + DigitVal(s[1]))

HasSign(s) == Len(s) > 0 /\ s[1] \in {"+", "-"}
Unsigned(s) == IF HasSign(s) THEN Tail(s) ELSE s
SignOf(s) == IF Len(s) > 0 /\ s[1] = "-" THEN 0 - 1 ELSE 1

\* ParseInt with the sign dropped
ParseInt_NoSign(s) ==
    LET t == Strip(s)
    IN IF IsDigitRun(Unsigned(t))
       THEN PyInt(DigitRunVal(Unsigned(t), 0))
       ELSE Raise("ValueError")

\* int(s) of a str: PyInt(n), or Raise("ValueError")
ParseInt(s) ==
    LET t == Strip(s)
    IN IF IsDigitRun(Unsigned(t))
       THEN PyInt(SignOf(t) * DigitRunVal(Unsigned(t), 0))
       ELSE Raise("ValueError")

RECURSIVE Pow10(_)
Pow10(e) == IF e = 0 THEN 1 ELSE 10 * Pow10(e - 1)

RECURSIVE NormFloat(_, _)
\* the float m / 10^e in lowest decimal terms
NormFloat(m, e) ==
    IF e > 0 /\ m % 10 = 0 THEN NormFloat(m \div 10, e - 1) ELSE PyFloat(m, e)

\* float(s) of a str holding a decimal literal [sign] digits [. digits] (the
\* exponent, inf and nan forms are outside the literals the model draws)
ParseFloat(s) ==
    LET t == Unsigned(Strip(s))
        halves == Split(t, Dot)
        whole == halves[1]
        frac == IF Len(halves) = 2 THEN halves[2] ELSE <<>>
        ok == /\ Len(halves) <= 2
              /\ Len(whole) + Len(frac) > 0
              /\ Len(whole) > 0 => IsDigitRun(whole)
              /\ Len(frac) > 0 => IsDigitRun(frac)
    IN IF ok
       THEN NormFloat(SignOf(Strip(s)) * (DigitRunVal(whole, 0) * Pow10(Len(frac))
                                          + DigitRunVal(frac, 0)),
                      Len(frac))
       ELSE Raise("ValueError")

----------------------------------------------------------------------------
(* Value Caster *)

sUCode == <<"U", "C", "o", "d", "e">>
sBYTES == <<"B", "Y", "T", "E", "S", ":">>

\* getattr(UCode, enum_member): the members the scenarios use
UCodeMember(enum_member) ==
    IF enum_member = <<"O", "K">> THEN PyInt(0)
    ELSE IF enum_member = <<"U", "N", "K", "N", "O", "W", "N">> THEN PyInt(2)
    ELSE Raise("AttributeError")

cast_data_to_jsonable_bytes(value) ==
    IF IsStr(value) THEN PyStr(sBYTES \o value.str) ELSE Raise("TypeError")

cast_data_to_bytes(value) ==
    IF IsStr(value) THEN PyBytes(value.str) ELSE Raise("AttributeError")

\* lines 97-99: the value after the enumerated-code lookup
ResolveUCode(value) ==
    IF Contains(value, sUCode)
    THEN (IF Len(Split(value, Dot)) < 2 THEN Raise("IndexError")
          ELSE UCodeMember(Split(value, Dot)[2]))
    ELSE PyStr(value)

\* lines 101-118: the coercion of the resolved value
Coerce(value, data_type, jsonable) ==
    CASE data_type = "int" ->
            IF IsInt(value) THEN value
            ELSE (IF IsRaise(ParseInt(value.str)) THEN PyNone ELSE ParseInt(value.str))
      [] data_type = "str" -> value
      [] data_type = "bool" ->
            IF IsInt(value) THEN PyBool(value.int # 0) ELSE PyBool(Len(value.str) > 0)
      [] data_type = "float" ->
            IF IsInt(value) THEN PyFloat(value.int, 0) ELSE ParseFloat(value.str)
      [] data_type = "bytes" ->
            IF jsonable THEN cast_data_to_jsonable_bytes(value)
            ELSE cast_data_to_bytes(value)
      [] OTHER -> Raise("ValueError")

\* cast(value, data_type, jsonable) for a str value: the typed value or the
\* exception raised
cast(value, data_type, jsonable) ==
    LET resolved == ResolveUCode(value)
    IN IF IsRaise(resolved) THEN resolved
       ELSE Coerce(resolved, data_type, jsonable)

----------------------------------------------------------------------------
(* The context object before the first step, and the harness around it *)

sPython == <<"p", "y", "t", "h", "o", "n">>
sJava == <<"j", "a", "v", "a">>
sRust == <<"r", "u", "s", "t">>
sCpp == <<"c", "p", "p">>

IdleContext ==
    /\ json_dict = Unset
    /\ rust_sender = Unset
    /\ response_data = Unset
    /\ ue = Unset
    /\ action = Unset
    /\ pc = [at |-> "idle"]
    /\ sleeps = 0
    /\ last = [op |-> "none", name |-> <<>>, key |-> <<>>, err |-> "none"]

NoAgents ==
    /\ connected = {}
    /\ ues = <<>>
    /\ tm_request = Unset

----------------------------------------------------------------------------
(* Agent Launcher: create_command, create_subprocess *)

PYTHON_TA_PATH ==
    <<"/", "t", "e", "s", "t", "_", "a", "g", "e", "n", "t", "/", "p", "y", "t", "h", "o", "n",
      "/", "t", "e", "s", "t", "a", "g", "e", "n", "t", ".", "p", "y">>
JAVA_TA_PATH ==
    <<"/", "t", "e", "s", "t", "_", "a", "g", "e", "n", "t", "/", "j", "a", "v", "a", "/", "t",
      "a", "r", "g", "e", "t", "/", "t", "c", "k", "-", "t", "e", "s", "t", "-", "a", "g", "e",
      "n", "t", "-", "j", "a", "v", "a", "-", "j", "a", "r", "-", "w", "i", "t", "h", "-", "d",
      "e", "p", "e", "n", "d", "e", "n", "c", "i", "e", "s", ".", "j", "a", "r">>
RUST_TA_PATH ==
    <<"/", "t", "e", "s", "t", "_", "a", "g", "e", "n", "t", "/", "r", "u", "s", "t", "/",
      "r", "u", "s", "t", "_", "t", "c", "k">>
CPP_TA_PATH ==
    <<"/", "t", "e", "s", "t", "_", "a", "g", "e", "n", "t", "/", "c", "p", "p", "/",
      "t", "e", "s", "t", "_", "a", "g", "e", "n", "t", "_", "c", "p", "p">>

Platforms == {"linux", "win32", "sunos5"}
IsPosix(p) == p \in {"linux", "linux2", "darwin"}

\* create_command: the argv list, or the exception raised; x_ok is
\* os.access(full_path, os.X_OK)
create_command(plat, x_ok, filepath_from_root_repo, transport_to_send, sdk_name) ==
    LET tail == <<filepath_from_root_repo, <<"-", "-", "t", "r", "a", "n", "s", "p", "o", "r", "t">>,
                  transport_to_send, <<"-", "-", "s", "d", "k", "n", "a", "m", "e">>, sdk_name>>
    IN IF EndsWith(filepath_from_root_repo, <<".", "j", "a", "r">>)
       THEN [argv |-> <<sJava, <<"-", "j", "a", "r">>>> \o tail]
       ELSE IF EndsWith(filepath_from_root_repo, <<".", "p", "y">>)
       THEN (IF plat = "win32" THEN [argv |-> <<sPython>> \o tail]
             ELSE IF IsPosix(plat) THEN [argv |-> <<sPython \o <<"3">>>> \o tail]
             ELSE [argv |-> tail])
       ELSE IF x_ok THEN [argv |-> tail]
       ELSE IF ~EndsWith(filepath_from_root_repo, <<"r", "u", "s", "t", "_", "t", "c", "k">>)
       THEN Raise("Exception")
       ELSE [argv |-> tail]

\* create_subprocess: the process handle, or the exception raised
create_subprocess(plat, command) ==
    IF plat = "win32" THEN [argv |-> command.argv, shell |-> TRUE]
    ELSE IF IsPosix(plat) THEN [argv |-> command.argv, shell |-> FALSE]
    ELSE Raise("Exception")

\* the --sdkname argument a process was started with
ProcessName(process) == process.argv[Len(process.argv)]

----------------------------------------------------------------------------
(* Entity Registry: context.ue_tracker[int(ue_number) - 1] *)

sUE == <<"u", "E">>

\* list[idx] for a 0-based Python index: negative indices count from the end
ListIndex(list, idx) ==
    IF 0 <= idx /\ idx < Len(list) THEN list[idx + 1]
    ELSE IF idx < 0 /\ 0 - idx <= Len(list) THEN list[Len(list) + idx + 1]
    ELSE Raise("IndexError")

\* context.ue_tracker[int(name.replace("uE", "")) - 1]: the record, or the
\* exception raised
TrackerEntry(tracker, name) ==
    LET ue_number == ParseInt(Replace(name, sUE, <<>>))
    IN IF IsRaise(ue_number) THEN ue_number
       ELSE ListIndex(tracker, ue_number.int - 1)

RECURSIVE SkipDigits(_)
SkipDigits(s) == IF Len(s) > 0 /\ IsDigit(s[1]) THEN SkipDigits(Tail(s)) ELSE s

RECURSIVE RemoveQualifiers(_)
\* re.sub(r"_\d+", "", sdk_name)
RemoveQualifiers(s) ==
    IF Len(s) = 0 THEN s
    ELSE IF s[1] = "_" /\ Len(s) > 1 /\ IsDigit(s[2]) THEN RemoveQualifiers(SkipDigits(Tail(s)))
    ELSE <<s[1]>> \o RemoveQualifiers(Tail(s))

\* the sdk_paths dict of create_sdk_data
sdk_paths ==
    << <<sPython, PYTHON_TA_PATH>>, <<sJava, JAVA_TA_PATH>>,
       <<sRust, RUST_TA_PATH>>, <<sCpp, CPP_TA_PATH>> >>

----------------------------------------------------------------------------
(* The scenario steps.  A step runs when the create step is not polling    *)
(* and no step of the scenario has failed; `last` records the step and the *)
(* exception it raised ("none" when it passed).                            *)

MaxSleeps == 2

Running == pc.at = "idle" /\ last.err = "none"

Step(op, name, key, err) == [op |-> op, name |-> name, key |-> key, err |-> err]

\* SetIfAbsent without the membership test
SetAlways(d, key, value) == DictSet(d, key, value)

\* `key not in context.json_dict` and the assignment under it
SetIfAbsent(d, key, value) == IF HasKey(d, key) THEN d ELSE DictSet(d, key, value)

\* lines 175-177: the assertion on the initialize_transport response code
CodeIsOK(code) ==
    IF IsInt(code) THEN code.int = 0
    ELSE IF IsRaise(ParseInt(code.str)) THEN code.str = <<"O", "K">>
    ELSE ParseInt(code.str).int = 0

RECURSIVE ReadTable(_, _, _)
\* lines 194-199: the rows of context.table from row i on; the payload built
\* and the exception that stopped the loop, if any
ReadTable(table, i, d) ==
    IF i > Len(table) THEN [dict |-> d, err |-> "none"]
    ELSE LET value == cast(table[i].protobuf_field_values, table[i].protobuf_field_type, TRUE)
         IN IF IsRaise(value) THEN [dict |-> d, err |-> value.raise]
            ELSE ReadTable(table, i + 1, DictSet(d, table[i].protobuf_field_names, value))

\* CreateFinish with the table read into the payload the context holds
CreateFinish_NoReset(given, sdk_name, command, table) ==
    LET held == IF IsDict(json_dict) THEN json_dict.dict ELSE <<>>
        read == IF IsUnset(table) THEN [dict |-> held, err |-> "none"]
                ELSE ReadTable(table.rows, 1, held)
    IN /\ rust_sender' = IF Contains(sdk_name, sRust) /\ command = "send" THEN PyBool(TRUE)
                         ELSE IF IsUnset(rust_sender) THEN PyBool(FALSE)
                         ELSE rust_sender
       /\ ue' = PyStr(sdk_name)
       /\ action' = PyStr(command)
       /\ json_dict' = PyDict(read.dict)
       /\ last' = Step("create", given, <<>>, read.err)
       /\ pc' = [at |-> "idle"]

\* lines 181-202 of create_sdk_data, run once the agent is connected
CreateFinish(given, sdk_name, command, table) ==
    LET read == IF IsUnset(table) THEN [dict |-> <<>>, err |-> "none"]
                ELSE ReadTable(table.rows, 1, <<>>)
    IN /\ rust_sender' = IF Contains(sdk_name, sRust) /\ command = "send" THEN PyBool(TRUE)
                         ELSE IF IsUnset(rust_sender) THEN PyBool(FALSE)
                         ELSE rust_sender
       /\ ue' = PyStr(sdk_name)
       /\ action' = PyStr(command)
       /\ json_dict' = PyDict(read.dict)
       /\ last' = Step("create", given, <<>>, read.err)
       /\ pc' = [at |-> "idle"]

\* a create step that raises `err` after the payload was reset (line 135)
CreateRaises(given, err) ==
    /\ json_dict' = PyDict(<<>>)
    /\ last' = Step("create", given, <<>>, err)
    /\ UNCHANGED <<rust_sender, response_data, ue, action, pc, sleeps, env_vars>>

\* Launch with an unknown kind falling back to the python agent
Launch_AnyKind(given, entry, sdk_name, command, table, x_ok) ==
    LET base_sdk_name == RemoveQualifiers(sdk_name)
        path == IF HasKey(sdk_paths, base_sdk_name) THEN Get(sdk_paths, base_sdk_name)
                ELSE PYTHON_TA_PATH
        run_command == create_command(platform, x_ok, path, entry.transport, sdk_name)
        process == create_subprocess(platform, run_command)
    IN IF IsUnset(entry) THEN CreateRaises(given, "UnboundLocalError")
       ELSE IF IsRaise(run_command) THEN CreateRaises(given, run_command.raise)
       ELSE IF IsRaise(process) THEN CreateRaises(given, process.raise)
       ELSE /\ ues' = DictSet(ues, base_sdk_name,
                        Append(IF HasKey(ues, base_sdk_name) THEN Get(ues, base_sdk_name) ELSE <<>>,
                               process))
            /\ json_dict' = PyDict(<<>>)
            /\ pc' = [at |-> "poll", given |-> given, sdk_name |-> sdk_name, uri |-> entry.uri,
                      command |-> command, table |-> table]
            /\ sleeps' = 0
            /\ last' = Step("create", given, <<>>, "running")
            /\ UNCHANGED <<rust_sender, response_data, ue, action,
                           ue_tracker, platform, connected, tm_request>>

\* lines 144-163: the agent is launched and the step starts to poll
Launch(given, entry, sdk_name, command, table, x_ok) ==
    LET base_sdk_name == RemoveQualifiers(sdk_name)
        run_command == create_command(platform, x_ok, Get(sdk_paths, base_sdk_name),
                                      entry.transport, sdk_name)
        process == create_subprocess(platform, run_command)
    IN IF ~HasKey(sdk_paths, base_sdk_name) THEN CreateRaises(given, "ValueError")
       ELSE IF IsUnset(entry) THEN CreateRaises(given, "UnboundLocalError")
       ELSE IF IsRaise(run_command) THEN CreateRaises(given, run_command.raise)
       ELSE IF IsRaise(process) THEN CreateRaises(given, process.raise)
       ELSE IF base_sdk_name \notin {sPython, sJava, sCpp, sRust}
       THEN CreateRaises(given, "ValueError")
       ELSE /\ ues' = DictSet(ues, base_sdk_name,
                        Append(IF HasKey(ues, base_sdk_name) THEN Get(ues, base_sdk_name) ELSE <<>>,
                               process))
            /\ json_dict' = PyDict(<<>>)
            /\ pc' = [at |-> "poll", given |-> given, sdk_name |-> sdk_name, uri |-> entry.uri,
                      command |-> command, table |-> table]
            /\ sleeps' = 0
            /\ last' = Step("create", given, <<>>, "running")
            /\ UNCHANGED <<rust_sender, response_data, ue, action,
                           ue_tracker, platform, connected, tm_request>>

\* create_sdk_data without the has_sdk_connection test
create_sdk_data_Relaunch(sdk_name, command, table, x_ok) ==
    /\ Running
    /\ UNCHANGED fn_vars
    /\ LET entry == IF Contains(sdk_name, sUE) THEN TrackerEntry(ue_tracker, sdk_name)
                    ELSE Unset
       IN IF IsRaise(entry) THEN CreateRaises(sdk_name, entry.raise)
          ELSE Launch(sdk_name, entry, IF IsUnset(entry) THEN sdk_name ELSE entry.sdk,
                      command, table, x_ok)

\* "{sdk_name}" creates data for "{command}", up to the liveness poll
create_sdk_data(sdk_name, command, table, x_ok) ==
    /\ Running
    /\ UNCHANGED fn_vars
    /\ LET entry == IF Contains(sdk_name, sUE) THEN TrackerEntry(ue_tracker, sdk_name)
                    ELSE Unset
       IN IF IsRaise(entry) THEN CreateRaises(sdk_name, entry.raise)
          ELSE LET name == IF IsUnset(entry) THEN sdk_name ELSE entry.sdk
               IN IF name \in connected
                  THEN /\ CreateFinish(sdk_name, name, command, table)
                       /\ UNCHANGED <<response_data, sleeps, env_vars>>
                  ELSE Launch(sdk_name, entry, name, command, table, x_ok)

\* lines 165-167: one turn of the liveness poll that finds the agent absent
PollSleep ==
    /\ pc.at = "poll"
    /\ pc.sdk_name \notin connected
    /\ sleeps' = IF sleeps < MaxSleeps THEN sleeps + 1 ELSE sleeps
    /\ UNCHANGED <<ctx_vars, env_vars, pc, last, fn_vars>>

\* PollConnected without the liveness query
PollConnected_Unchecked(code) ==
    /\ pc.at = "poll"
    /\ tm_request' = [to |-> pc.sdk_name, command |-> "initialize_transport",
                      payload |-> PyStr(pc.uri)]
    /\ IF CodeIsOK(code)
       THEN CreateFinish(pc.given, pc.sdk_name, pc.command, pc.table)
       ELSE /\ last' = Step("create", pc.given, <<>>, "AssertionError")
            /\ pc' = [at |-> "idle"]
            /\ UNCHANGED <<json_dict, rust_sender, ue, action>>
    /\ UNCHANGED <<response_data, sleeps, ue_tracker, platform, connected, ues, fn_vars>>

\* lines 165-179 and on: the poll finds the agent connected, the step
\* requests initialize_transport and checks the response code
PollConnected(code) ==
    /\ pc.at = "poll"
    /\ pc.sdk_name \in connected
    /\ tm_request' = [to |-> pc.sdk_name, command |-> "initialize_transport",
                      payload |-> PyStr(pc.uri)]
    /\ IF CodeIsOK(code)
       THEN CreateFinish(pc.given, pc.sdk_name, pc.command, pc.table)
       ELSE /\ last' = Step("create", pc.given, <<>>, "AssertionError")
            /\ pc' = [at |-> "idle"]
            /\ UNCHANGED <<json_dict, rust_sender, ue, action>>
    /\ UNCHANGED <<response_data, sleeps, ue_tracker, platform, connected, ues, fn_vars>>

\* a launched agent registers with the test manager
AgentConnects(sdk_name) ==
    /\ \E i \in 1..Len(ues) : \E j \in 1..Len(ues[i][2]) : ProcessName(ues[i][2][j]) = sdk_name
    /\ sdk_name \notin connected
    /\ connected' = connected \cup {sdk_name}
    /\ UNCHANGED <<ctx_vars, ue_tracker, platform, ues, tm_request, pc, sleeps, last, fn_vars>>

\* a step that raises `err` and changes nothing
StepRaises(op, name, key, err) ==
    /\ last' = Step(op, name, key, err)
    /\ UNCHANGED <<ctx_vars, env_vars, pc, sleeps>>

\* a set step that leaves the payload `d` behind
StepSets(op, name, key, d) ==
    /\ json_dict' = PyDict(d)
    /\ last' = Step(op, name, key, "none")
    /\ UNCHANGED <<rust_sender, response_data, ue, action, env_vars, pc, sleeps>>

\* sets "{key}" to "{value}"
set_key_to_val(key, value) ==
    /\ Running
    /\ UNCHANGED fn_vars
    /\ IF IsUnset(json_dict) THEN StepRaises("set_key_to_val", <<>>, key, "AttributeError")
       ELSE StepSets("set_key_to_val", <<>>, key, SetIfAbsent(json_dict.dict, key, PyStr(value)))

\* sets "{key}" to b"{value}"
set_key_to_bytes(key, value) ==
    /\ Running
    /\ UNCHANGED fn_vars
    /\ IF IsUnset(json_dict) THEN StepRaises("set_key_to_bytes", <<>>, key, "AttributeError")
       ELSE StepSets("set_key_to_bytes", <<>>, key,
                     SetIfAbsent(json_dict.dict, key, PyStr(sBYTES \o value)))

\* sets "{key}" to entity URI of "{ue}"
set_key_to_ue_uri(key, ue_name) ==
    /\ Running
    /\ UNCHANGED fn_vars
    /\ LET entry == TrackerEntry(ue_tracker, ue_name)
       IN IF IsUnset(json_dict) THEN StepRaises("set_key_to_ue_uri", ue_name, key, "AttributeError")
          ELSE IF HasKey(json_dict.dict, key)
          THEN StepSets("set_key_to_ue_uri", ue_name, key, json_dict.dict)
          ELSE IF IsRaise(entry) THEN StepRaises("set_key_to_ue_uri", ue_name, key, entry.raise)
          ELSE StepSets("set_key_to_ue_uri", ue_name, key,
                        DictSet(json_dict.dict, key, PyStr(entry.uri)))

\* sets "{key}" to previous response data
sets_key_to_previous_response(key) ==
    /\ Running
    /\ UNCHANGED fn_vars
    /\ IF IsUnset(json_dict)
       THEN StepRaises("sets_key_to_previous_response", <<>>, key, "AttributeError")
       ELSE IF HasKey(json_dict.dict, key)
       THEN StepSets("sets_key_to_previous_response", <<>>, key, json_dict.dict)
       ELSE IF IsUnset(response_data)
       THEN StepRaises("sets_key_to_previous_response", <<>>, key, "AttributeError")
       ELSE StepSets("sets_key_to_previous_response", <<>>, key,
                     DictSet(json_dict.dict, key, response_data))

\* sends "{command}" request; `data` is the "data" of the agent's response
send_command_request(command, data) ==
    /\ Running
    /\ UNCHANGED fn_vars
    /\ LET nested == unflatten_dict(json_dict.dict, Dot)
       IN IF IsUnset(json_dict) THEN StepRaises("send_command_request", <<>>, <<>>, "AttributeError")
          ELSE IF IsRaise(nested)
          THEN StepRaises("send_command_request", <<>>, <<>>, nested.raise)
          ELSE /\ json_dict' = nested
               /\ last' = Step("send_command_request", <<>>, <<>>,
                               IF IsUnset(ue) THEN "AttributeError" ELSE "none")
               /\ IF IsUnset(ue) THEN UNCHANGED <<tm_request, response_data>>
                  ELSE /\ tm_request' = [to |-> ue.str, command |-> command, payload |-> nested]
                       /\ response_data' = data
               /\ UNCHANGED <<rust_sender, ue, action, ue_tracker, platform, connected, ues,
                              pc, sleeps>>

\* the scenario ends: behave drops the attributes the steps set on the context
ScenarioEnd ==
    /\ pc.at = "idle"
    /\ last.op # "none"
    /\ json_dict' = Unset
    /\ rust_sender' = Unset
    /\ response_data' = Unset
    /\ ue' = Unset
    /\ action' = Unset
    /\ last' = Step("none", <<>>, <<>>, "none")
    /\ UNCHANGED <<env_vars, pc, sleeps, fn_vars>>

----------------------------------------------------------------------------
(* bytes, base64 and the escapes of the Response Normalizer.  A bytes      *)
(* value is the sequence of its bytes, a printable ASCII byte written as   *)
(* its character and any other byte n as "#n" (the grave accent, which a   *)
(* TLA+ string cannot hold, is "#96").                                     *)

\* the characters of the bytes 32 to 126
Ascii ==
    <<" ", "!", "\"", "#", "$", "%", "&", "'", "(", ")", "*", "+", ",", "-", ".", "/",
      "0", "1", "2", "3", "4", "5", "6", "7", "8", "9", ":", ";", "<", "=", ">", "?",
      "@", "A", "B", "C", "D", "E", "F", "G", "H", "I", "J", "K", "L", "M", "N", "O",
      "P", "Q", "R", "S", "T", "U", "V", "W", "X", "Y", "Z", "[", "\\", "]", "^", "_",
      "#96", "a", "b", "c", "d", "e", "f", "g", "h", "i", "j", "k", "l", "m", "n", "o",
      "p", "q", "r", "s", "t", "u", "v", "w", "x", "y", "z", "{", "|", "}", "~">>

ByteOf(n) == IF 32 <= n /\ n <= 126 THEN Ascii[n - 31] ELSE "#" \o ToString(n)

\* the bytes that str.decode("utf-8") rejects when they stand alone
HighBytes == {ByteOf(n) : n \in 128..255}
\* the control characters unicode_escape writes as \xNN
ControlBytes == {ByteOf(n) : n \in (0..31) \cup {127}}
CodeOf(byte) == CHOOSE n \in 0..255 : ByteOf(n) = byte

B64Alphabet ==
    <<"A", "B", "C", "D", "E", "F", "G", "H", "I", "J", "K", "L", "M", "N", "O", "P",
      "Q", "R", "S", "T", "U", "V", "W", "X", "Y", "Z", "a", "b", "c", "d", "e", "f",
      "g", "h", "i", "j", "k", "l", "m", "n", "o", "p", "q", "r", "s", "t", "u", "v",
      "w", "x", "y", "z", "0", "1", "2", "3", "4", "5", "6", "7", "8", "9", "+", "/">>

IsB64(c) == \E i \in 1..Len(B64Alphabet) : B64Alphabet[i] = c
B64Val(c) == (CHOOSE i \in 1..Len(B64Alphabet) : B64Alphabet[i] = c) - 1

RECURSIVE B64Scan(_, _, _, _, _, _)
\* binascii.a2b_base64 from character i on: characters outside the alphabet
\* are skipped, the padding that completes a quad ends the data, and data
\* that ends inside a quad is an error
B64Scan(s, i, quad_pos, leftchar, pads, out) ==
    IF i > Len(s)
    THEN (IF quad_pos = 0 THEN PyBytes(out) ELSE Raise("binascii.Error"))
    ELSE IF s[i] = "="
    THEN (IF quad_pos >= 2 /\ quad_pos + pads + 1 >= 4 THEN PyBytes(out)
          ELSE B64Scan(s, i + 1, quad_pos, leftchar,
                       IF quad_pos >= 2 THEN pads + 1 ELSE pads, out))
    ELSE IF ~IsB64(s[i]) THEN B64Scan(s, i + 1, quad_pos, leftchar, pads, out)
    ELSE LET v == B64Val(s[i])
         IN CASE quad_pos = 0 -> B64Scan(s, i + 1, 1, v, 0, out)
              [] quad_pos = 1 ->
                    B64Scan(s, i + 1, 2, v % 16, 0, Append(out, ByteOf(leftchar * 4 + v \div 16)))
              [] quad_pos = 2 ->
                    B64Scan(s, i + 1, 3, v % 4, 0, Append(out, ByteOf(leftchar * 16 + v \div 4)))
              [] OTHER ->
                    B64Scan(s, i + 1, 0, 0, 0, Append(out, ByteOf(leftchar * 64 + v)))

\* base64.b64decode(v) of a str or bytes: the bytes, or the exception
b64decode(v) ==
    IF IsStr(v) THEN B64Scan(v.str, 1, 0, 0, 0, <<>>)
    ELSE IF "bytes" \in DOMAIN v THEN B64Scan(v.bytes, 1, 0, 0, 0, <<>>)
    ELSE Raise("TypeError")

\* v.encode("utf-8") of the strs the model draws (ASCII)
Encode(v) == IF IsStr(v) THEN PyBytes(v.str) ELSE Raise("AttributeError")

\* b.decode("utf-8")
Decode(b) ==
    IF \E i \in 1..Len(b.bytes) : b.bytes[i] \in HighBytes THEN Raise("UnicodeDecodeError")
    ELSE PyStr(b.bytes)

HexDigits == Digits \o <<"a", "b", "c", "d", "e", "f">>

RECURSIVE UnicodeEscape(_)
\* codecs.encode(s, "unicode_escape")
UnicodeEscape(s) ==
    IF Len(s) = 0 THEN <<>>
    ELSE (CASE s[1] = "\\" -> <<"\\", "\\">>
            [] s[1] = ByteOf(10) -> <<"\\", "n">>
            [] s[1] = ByteOf(9) -> <<"\\", "t">>
            [] s[1] = ByteOf(13) -> <<"\\", "r">>
            [] s[1] \in ControlBytes ->
                  <<"\\", "x", HexDigits[(CodeOf(s[1]) \div 16) + 1], HexDigits[(CodeOf(s[1]) % 16) + 1]>>
            [] OTHER -> <<s[1]>>) \o UnicodeEscape(Tail(s))

sMarker == <<"g", "o", "o", "g", "l", "e", "a", "p", "i", "s", ".", "c", "o", "m", "/">>
sDotCom == <<".", "c", "o", "m", "/">>
sTypePrefix == <<"t", "y", "p", "e", ".", "g", "o", "o", "g", "l", "e", "a", "p", "i", "s", ".", "c", "o", "m", "/">>
sData == <<"d", "a", "t", "a">>
sPayload == <<"p", "a", "y", "l", "o", "a", "d">>
sValue == <<"v", "a", "l", "u", "e">>

\* v[key] of a Python value
Index(v, key) ==
    IF IsRaise(v) THEN v
    ELSE IF IsUnset(v) THEN Raise("AttributeError")
    ELSE IF ~IsDict(v) THEN Raise("TypeError")
    ELSE IF HasKey(v.dict, key) THEN Get(v.dict, key)
    ELSE Raise("KeyError")

RECURSIVE Walk(_, _)
\* the loop of access_nested_dict
Walk(value, keys) ==
    IF Len(keys) = 0 \/ IsRaise(value) THEN value
    ELSE Walk(Index(value, keys[1]), Tail(keys))

\* access_nested_dict(dictionary, keys); the strs the model draws are no
\* JSON documents, so json.loads of one raises
access_nested_dict(dictionary, keys) ==
    IF IsRaise(dictionary) THEN dictionary
    ELSE IF IsUnset(dictionary) THEN Raise("AttributeError")
    ELSE IF keys = <<>> THEN dictionary
    ELSE IF IsStr(dictionary) THEN Raise("JSONDecodeError")
    ELSE Walk(dictionary, Split(keys, Dot))

\* b.split(b"googleapis.com/")[1]
AfterMarker(b) ==
    IF Len(Split(b, sMarker)) < 2 THEN Raise("IndexError")
    ELSE PyBytes(Split(b, sMarker)[2])

\* the assert of the byte-comparison steps: "none" when it passes, else
\* the exception raised
AssertSameAfterMarker(actual, expected_value) ==
    IF IsRaise(AfterMarker(actual)) THEN AfterMarker(actual).raise
    ELSE IF IsRaise(AfterMarker(expected_value)) THEN AfterMarker(expected_value).raise
    ELSE IF AfterMarker(actual) = AfterMarker(expected_value) THEN "none"
    ELSE "AssertionError"

\* lines 406-411 and 452-457: the debug rendering of the rust agent reduced to
\* its byte text
RustText(s) ==
    DropFirst(Strip(Replace(Replace(Replace(Replace(Replace(s,
        <<"\"">>, <<>>), <<":">>, <<>>), <<"\\">>, <<>>), <<"x">>, <<"\\", "x">>), <<"}">>, <<>>)), 1)

\* lines 403-425 of receive_value_as_bytes: val, rec_field_value (a raise
\* stands for the name left unbound) and the flag, or the exception raised
ReceivedValue(sender_sdk_name, field_name, on_receive_msg) ==
    IF sender_sdk_name = sRust /\ IsUnset(rust_sender) THEN Raise("AttributeError")
    ELSE IF sender_sdk_name = sRust /\ ~rust_sender.bool
    THEN LET val == Index(Index(on_receive_msg, sData), sPayload)
         IN IF IsRaise(val) THEN val
            ELSE IF ~IsStr(val) THEN Raise("AttributeError")
            ELSE [val |-> val, rec_field_value |-> PyBytes(RustText(val.str)),
                  flag |-> rust_sender]
    ELSE LET val == access_nested_dict(Index(on_receive_msg, sData), field_name)
         IN IF IsRaise(val) THEN val
            ELSE IF IsUnset(rust_sender) THEN Raise("AttributeError")
            ELSE IF rust_sender.bool
            THEN [val |-> val, flag |-> PyBool(FALSE),
                  rec_field_value |->
                     IF ~IsStr(val) THEN Raise("AttributeError")
                     ELSE IF Len(Split(val.str, sDotCom)) < 2 THEN Raise("IndexError")
                     ELSE PyBytes(sTypePrefix \o Split(val.str, sDotCom)[2])]
            ELSE [val |-> val, flag |-> rust_sender,
                  rec_field_value |-> IF IsStr(val) THEN Encode(val)
                                      ELSE Raise("UnboundLocalError")]

\* lines 426-435: the comparison; "none" or the exception raised
ComparedValue(val, rec_field_value, expected_value) ==
    LET data_bytes == b64decode(val)
    IN IF ~IsRaise(data_bytes) THEN AssertSameAfterMarker(data_bytes.bytes, expected_value)
       ELSE IF data_bytes.raise # "binascii.Error" THEN data_bytes.raise
       ELSE IF IsRaise(rec_field_value) THEN rec_field_value.raise
       ELSE AssertSameAfterMarker(rec_field_value.bytes, expected_value)

\* "{sender_sdk_name}" sends onreceive message with field "{field_name}" as
\* b"{expected_value}"; on_receive_msg is what context.tm.get_onreceive gives
receive_value_as_bytes(sender_sdk_name, field_name, expected_value, on_receive_msg) ==
    /\ Running
    /\ UNCHANGED <<json_dict, response_data, ue, action, env_vars, pc, sleeps, fn_vars>>
    /\ LET entry == IF Contains(sender_sdk_name, sUE)
                    THEN TrackerEntry(ue_tracker, sender_sdk_name) ELSE Unset
           got == IF IsRaise(entry) THEN entry
                  ELSE ReceivedValue(IF IsUnset(entry) THEN sender_sdk_name ELSE entry.sdk,
                                     field_name, on_receive_msg)
           \* in the flag branch the flag is cleared before the split raises
           raised == IF IsRaise(got) THEN got.raise
                     ELSE IF got.flag # rust_sender /\ IsRaise(got.rec_field_value)
                     THEN got.rec_field_value.raise
                     ELSE ComparedValue(got.val, got.rec_field_value, Strip(expected_value))
       IN /\ rust_sender' = IF IsRaise(got) THEN rust_sender ELSE got.flag
          /\ last' = Step("receive_value_as_bytes", sender_sdk_name, field_name,
                          IF raised \in {"none", "AssertionError"} THEN raised ELSE "ValueError")

\* lines 448-469 of receive_rpc_response_as_bytes: actual_value and the
\* flag, or the exception raised
ReceivedResponse(sdk_name, field_name) ==
    IF sdk_name = sRust
    THEN LET data == Index(response_data, sData)
         IN IF IsRaise(data) THEN data
            ELSE IF ~IsStr(data) THEN Raise("AttributeError")
            ELSE IF Len(Split(data.str, sValue)) < 2 THEN Raise("IndexError")
            ELSE [actual_value |-> PyBytes(RustText(Split(data.str, sValue)[2])),
                  flag |-> rust_sender]
    ELSE LET actual_value == access_nested_dict(response_data, field_name)
         IN IF IsRaise(actual_value) THEN actual_value
            ELSE IF IsUnset(rust_sender) THEN Raise("AttributeError")
            ELSE IF rust_sender.bool
            THEN [flag |-> PyBool(FALSE),
                  actual_value |->
                     IF ~IsStr(actual_value) THEN Raise("AttributeError")
                     ELSE IF IsRaise(b64decode(Encode(actual_value)))
                     THEN b64decode(Encode(actual_value))
                     ELSE IF IsRaise(Decode(b64decode(Encode(actual_value))))
                     THEN Decode(b64decode(Encode(actual_value)))
                     ELSE PyBytes(DropFirst(Replace(Replace(Replace(
                            Decode(b64decode(Encode(actual_value))).str,
                            <<"\"">>, <<>>), <<"\\">>, <<>>), <<"x">>, <<"\\", "x">>), 1))]
            ELSE [flag |-> rust_sender, actual_value |-> Encode(actual_value)]

\* "{sdk_name}" receives data field "{field_name}" as b"{expected_value}"
receive_rpc_response_as_bytes(sdk_name, field_name, expected_value) ==
    /\ Running
    /\ UNCHANGED <<json_dict, response_data, ue, action, env_vars, pc, sleeps, fn_vars>>
    /\ LET got == ReceivedResponse(sdk_name, field_name)
           raised == IF IsRaise(got) THEN got.raise
                     ELSE IF IsRaise(got.actual_value) THEN got.actual_value.raise
                     ELSE IF IsRaise(Decode(got.actual_value)) THEN Decode(got.actual_value).raise
                     ELSE AssertSameAfterMarker(UnicodeEscape(Decode(got.actual_value).str),
                                                expected_value)
       IN /\ rust_sender' = IF IsRaise(got) THEN rust_sender ELSE got.flag
          /\ last' = Step("receive_rpc_response_as_bytes", sdk_name, field_name,
                          IF raised \in {"none", "AssertionError", "KeyError"} THEN raised
                          ELSE "ValueError")

----------------------------------------------------------------------------
(* The entity table and the scenario text the specifications draw from *)

sUri1 == <<"/", "/", "a", "/", "1">>
sUri2 == <<"/", "/", "b", "/", "2">>
sSocket == <<"s", "o", "c", "k", "e", "t">>
sZenoh == <<"z", "e", "n", "o", "h">>
sCpp2 == sCpp \o <<"_", "2">>
sGo == <<"g", "o">>
sUE0 == sUE \o <<"0">>
sUE1 == sUE \o <<"1">>
sUE2 == sUE \o <<"2">>
sUE3 == sUE \o <<"3">>

TrackerRow(sdk, transport, uri) == [sdk |-> sdk, transport |-> transport, uri |-> uri]

sGo1 == sGo \o <<"_", "1">>
sUri3 == <<"/", "/", "c", "/", "3">>
sUE4 == sUE \o <<"4">>

\* context.ue_tracker as the scenario setup filled it: uE1 is a second cpp
\* agent on the socket transport, uE2 an agent of a kind the harness has no
\* test agent for, uE3 the rust agent on zenoh
Tracker ==
    << TrackerRow(sCpp2, sSocket, sUri1), TrackerRow(sGo1, sSocket, sUri3),
       TrackerRow(sRust, sZenoh, sUri2) >>

Commands == {"send", "registerlistener"}

Row(n, v, t) == [protobuf_field_names |-> n, protobuf_field_values |-> v, protobuf_field_type |-> t]

sA == <<"a">>
sAB == <<"a", ".", "b">>
sX == <<"x">>

InitCodes == {PyInt(0), PyStr(<<"O", "K">>), PyInt(13)}

----------------------------------------------------------------------------
(* Specification of the agent launcher and the entity registry: the create *)
(* step with its liveness poll, the agents that connect, and the set step  *)
(* that resolves an entity.                                                *)

CreateNames == {sUE0, sUE1, sUE2, sUE3, sUE4, sPython, sGo}
UeNames == {sUE0, sUE1, sUE4}

Init ==
    /\ ue_tracker = Tracker
    /\ platform \in Platforms
    /\ NoAgents
    /\ IdleContext
    /\ fn_in = Unset
    /\ fn_out = Unset

Next ==
    \/ \E n \in CreateNames, c \in Commands, x \in BOOLEAN : create_sdk_data(n, c, Unset, x)
    \/ PollSleep
    \/ \E code \in InitCodes : PollConnected(code)
    \/ \E n \in {sCpp2, sRust} : AgentConnects(n)
    \/ \E n \in UeNames : set_key_to_ue_uri(sA, n)
    \/ ScenarioEnd

Spec == Init /\ [][Next]_vars

\* the liveness poll takes its turns, and a launched agent whose process
\* runs does register
FairSpec == Spec /\ WF_vars(PollSleep) /\ WF_vars(\E code \in InitCodes : PollConnected(code))

----------------------------------------------------------------------------
(* Specification of the request payload: both agents of the entity table   *)
(* are connected (the state the launcher specification reaches once each   *)
(* was created), and the steps build and send payloads.                    *)

\* the process create_sdk_data starts for a row of the entity table
ProcessOf(row) ==
    create_subprocess("linux",
        create_command("linux", TRUE, Get(sdk_paths, RemoveQualifiers(row.sdk)),
                       row.transport, row.sdk))

AgentsConnected ==
    /\ ue_tracker = Tracker
    /\ platform = "linux"
    /\ connected = {sCpp2, sRust}
    /\ ues = << <<sCpp, <<ProcessOf(Tracker[1])>> >>, <<sRust, <<ProcessOf(Tracker[3])>> >> >>
    /\ tm_request = [to |-> sRust, command |-> "initialize_transport", payload |-> PyStr(sUri2)]

\* context.table of a create step: none, or its rows
Tables ==
    { Unset,
      [rows |-> << Row(sAB, <<"4", "2">>, "int") >>],
      [rows |-> << Row(sA, sX, "str"), Row(sA, sX, "bytes") >>],
      [rows |-> << Row(sA, sX, "str"), Row(sAB, sX, "enumCode") >>] }

SetKeys == {sA, sAB}
ResponseDatas == {PyDict(<< <<(<<"b">>), PyStr(<<"r">>)>> >>)}

PayloadInit ==
    /\ AgentsConnected
    /\ IdleContext
    /\ fn_in = Unset
    /\ fn_out = Unset

PayloadNext ==
    \/ \E t \in Tables : create_sdk_data(sUE1, "send", t, TRUE)
    \/ \E k \in SetKeys : set_key_to_val(k, sX)
    \/ \E k \in SetKeys : set_key_to_bytes(k, sX)
    \/ \E k \in SetKeys : set_key_to_ue_uri(k, sUE3)
    \/ \E k \in SetKeys : sets_key_to_previous_response(k)
    \/ \E d \in ResponseDatas : send_command_request("send", d)
    \/ ScenarioEnd

PayloadSpec == PayloadInit /\ [][PayloadNext]_vars

----------------------------------------------------------------------------
(* Claims about the request payload (checked under PayloadSpec) *)

SetOps ==
    {"set_key_to_val", "set_key_to_bytes", "set_key_to_ue_uri", "sets_key_to_previous_response"}

\* the keys json_dict holds before and after the step keep their values
HeldValuesKept ==
    (IsDict(json_dict) /\ IsDict(json_dict')) =>
        \A k \in Keys(json_dict.dict) \cap Keys(json_dict'.dict) :
            Get(json_dict'.dict, k) = Get(json_dict.dict, k)

\* C2 as stated: over the steps that write the payload (the create step's
\* table rows and the four set steps), a key that holds a value keeps it:
\* the later write to that key is a no-op; here for the steps that pass.
C2_FirstWriteWins ==
    [][(last'.op \in SetOps \cup {"create"} /\ last'.err = "none") => HeldValuesKept]_vars

\* C2 (amended): a set step (sets key to value, to bytes, to entity URI, to
\* previous response data) never changes or removes a key the payload
\* holds; the create step empties the payload and its table rows assign
\* without looking, so the last row for a key wins.
C2_SetStepsKeepHeld ==
    [][(last'.op \in SetOps /\ IsDict(json_dict)) =>
            /\ IsDict(json_dict')
            /\ Keys(json_dict.dict) \subseteq Keys(json_dict'.dict)
            /\ HeldValuesKept]_vars

\* sets "a" to b"x" ran on a payload whose "a" was "x", and "a" is still "x"
C2_Witness ==
    /\ last = Step("set_key_to_bytes", <<>>, sA, "none")
    /\ IsDict(json_dict)
    /\ HasKey(json_dict.dict, sA)
    /\ Get(json_dict.dict, sA) = PyStr(sX)

\* the payload the rows of `table` write, starting from an empty one
WrittenBy(table) ==
    IF IsUnset(table) THEN PyDict(<<>>) ELSE PyDict(ReadTable(table.rows, 1, <<>>).dict)

\* C12: a create step leaves in the payload the fields its own table rows
\* wrote and nothing else, whatever the payload held before (fields set
\* earlier, or the nested payload an earlier send left); between create
\* steps a set step keeps what the payload holds and adds at most its own
\* key; and a send step dispatches the unflattened payload. So what a send
\* dispatches was written since the most recent create step.
C12_CreateResetsPayload ==
    [][/\ \A t \in Tables : create_sdk_data(sUE1, "send", t, TRUE) => json_dict' = WrittenBy(t)
       /\ (last'.op \in SetOps /\ IsDict(json_dict)) =>
              /\ IsDict(json_dict')
              /\ Keys(json_dict'.dict) \subseteq Keys(json_dict.dict) \cup {last'.key}
       /\ (last'.op = "send_command_request" /\ last'.err = "none") =>
              /\ json_dict' = unflatten_dict(json_dict.dict, Dot)
              /\ tm_request'.command = "send"
              /\ tm_request'.payload = json_dict']_vars

\* a create step without a table ran after a send had dispatched {"a": "x"}
\* and left it in the payload: the payload is empty
C12_Witness ==
    /\ last = Step("create", sUE1, <<>>, "none")
    /\ json_dict = PyDict(<<>>)
    /\ ~IsUnset(tm_request)
    /\ tm_request.command = "send"
    /\ tm_request.payload = PyDict(<< <<sA, PyStr(sX)>> >>)

----------------------------------------------------------------------------
(* Claims about the launcher and the registry (checked under Spec) *)

KnownKinds == {sPython, sJava, sRust, sCpp}

\* the processes context.ues holds, as <<kind, index>> pairs
Processes == {<<i, j>> \in (1..Len(ues)) \X (1..3) : j <= Len(ues[i][2])}

ProcessesNamed(n) == {p \in Processes : ProcessName(ues[p[1]][2][p[2]]) = n}

\* C3: an agent is launched only when no live connection exists for its
\* name, and there is at most one process for each qualified agent name.
C3_OneProcessPerName ==
    /\ [](\A p \in Processes : Cardinality(ProcessesNamed(ProcessName(ues[p[1]][2][p[2]]))) = 1)
    /\ [][ues' # ues => (pc'.at = "poll" /\ pc'.sdk_name \notin connected)]_vars

\* uE1 was created again while its agent cpp_2 was live (the request
\* dispatched last is still the one to the agent launched after it), and
\* cpp_2 still has one process
C3_Witness ==
    /\ last = Step("create", sUE1, <<>>, "none")
    /\ ue = PyStr(sCpp2)
    /\ tm_request # Unset
    /\ tm_request.to = sRust
    /\ sCpp2 \in connected
    /\ Cardinality(ProcessesNamed(sCpp2)) = 1

\* the name a create step given `name` asks the test manager for
Requested(name) ==
    IF Contains(name, sUE) THEN TrackerEntry(ue_tracker, name).sdk ELSE name

Resolves(name) == ~Contains(name, sUE) \/ ~IsRaise(TrackerEntry(ue_tracker, name))

\* C4: a create step for an agent whose kind (the name without its numeric
\* qualifier) is not a known kind raises ValueError, and no process of such
\* a kind is spawned or recorded in context.ues.
C4_UnknownKindRaises ==
    /\ (last.op = "create" /\ Resolves(last.name)
            /\ RemoveQualifiers(Requested(last.name)) \notin KnownKinds)
        => last.err = "ValueError"
    /\ \A i \in 1..Len(ues) : ues[i][1] \in KnownKinds
    /\ \A p \in Processes : RemoveQualifiers(ProcessName(ues[p[1]][2][p[2]])) \in KnownKinds

\* "uE2" (the agent go_1) was created after an agent had been launched: the
\* step raised ValueError
C4_Witness ==
    /\ last = Step("create", sUE2, <<>>, "ValueError")
    /\ Len(ues) > 0

\* C5: the create step dispatches initialize_transport to the agent it
\* launched only once the agent is connected; while it is not, the step
\* stays in its poll, with no limit on the number of sleeps; and once the
\* agent is connected the step leaves the poll.
C5_PollUntilConnected ==
    /\ []((~IsUnset(tm_request) /\ tm_request.command = "initialize_transport")
            => tm_request.to \in connected)
    /\ [][(pc.at = "poll" /\ pc.sdk_name \notin connected)
            => (pc' = pc /\ tm_request' = tm_request /\ last' = last)]_vars
    /\ [][(pc.at = "poll" /\ pc'.at = "idle")
            => (pc.sdk_name \in connected /\ tm_request'.to = pc.sdk_name
                /\ tm_request'.command = "initialize_transport")]_vars
    /\ ((pc.at = "poll" /\ pc.sdk_name \in connected) ~> pc.at = "idle")

\* a create step slept in its poll, found the agent connected, requested
\* initialize_transport and passed
C5_Witness ==
    /\ last.op = "create" /\ last.err = "none"
    /\ sleeps = MaxSleeps
    /\ ~IsUnset(tm_request)
    /\ tm_request.command = "initialize_transport"
    /\ ue = PyStr(tm_request.to)

\* the ordinal N of "uE<N>"
Ordinal(name) == ParseInt(Replace(name, sUE, <<>>)).int

\* C6: resolving "uE<N>" gives the record at index N-1 of the entity table
\* and raises IndexError (UnknownEntity) for every N without a record, 0
\* and N above the table size included; never the record of another ordinal.
C6_ResolveByOrdinal ==
    (last.op = "create" /\ Contains(last.name, sUE)) =>
        IF Ordinal(last.name) \in 1..Len(ue_tracker)
        THEN /\ last.err = "running" => pc.sdk_name = ue_tracker[Ordinal(last.name)].sdk
             /\ last.err = "none" => ue = PyStr(ue_tracker[Ordinal(last.name)].sdk)
        ELSE last.err = "IndexError"

----------------------------------------------------------------------------
(* Specification of the byte comparisons: both agents are connected, and   *)
(* create, send and the two byte-comparison steps run in any order.        *)

sTypedY == <<"t", "y", "p", "e", ".", "g", "o", "o", "g", "l", "e", "a", "p", "i", "s", ".", "c", "o", "m", "/", "y">>
sY == <<"y">>
\* the debug rendering a rust agent gives of a payload
sRustRendering ==
    <<"v", "a", "l", "u", "e", ":", " ", "\"", "t", "y", "p", "e", ".", "g", "o", "o", "g", "l", "e", "a", "p", "i", "s", ".", "c", "o", "m", "/", "y", "\"", "}">>
sMissing == <<"m", "i", "s", "s">>

\* response_json["data"] of a send request
CompareResponses ==
    { PyDict(<< <<sData, PyStr(sRustRendering)>>, <<sValue, PyStr(sTypedY)>> >>) }

\* what context.tm.get_onreceive returns
OnReceiveMsgs ==
    { PyDict(<< <<sData, PyDict(<< <<sPayload, PyStr(sRustRendering)>>,
                                   <<sValue, PyStr(sTypedY)>> >>)>> >>),
      PyDict(<<>>) }

FieldNames == {sValue, sMissing}
ExpectedValues == {sTypedY, sY}

CompareInit ==
    /\ AgentsConnected
    /\ IdleContext
    /\ fn_in = Unset
    /\ fn_out = Unset

CompareNext ==
    \/ \E n \in {sUE1, sUE3}, c \in Commands : create_sdk_data(n, c, Unset, TRUE)
    \/ \E d \in CompareResponses : send_command_request("send", d)
    \/ \E n \in {sUE1, sUE3}, f \in FieldNames, e \in ExpectedValues, m \in OnReceiveMsgs :
          receive_value_as_bytes(n, f, e, m)
    \/ \E n \in {sPython, sRust}, f \in FieldNames, e \in ExpectedValues :
          receive_rpc_response_as_bytes(n, f, e)
    \/ ScenarioEnd

CompareSpec == CompareInit /\ [][CompareNext]_vars

----------------------------------------------------------------------------
(* Claims about the byte comparisons (checked under CompareSpec) *)

CompareOps == {"receive_value_as_bytes", "receive_rpc_response_as_bytes"}

\* C1 as stated: when context.rust_sender is set (only a create step for a
\* rust agent with command "send" sets it), the next byte-comparison step,
\* for any sdk name, leaves it False; here for the steps that pass
C1_FlagSingleShot ==
    [][(rust_sender = PyBool(TRUE) /\ last'.op \in CompareOps /\ last'.err = "none")
          => rust_sender' = PyBool(FALSE)]_vars

\* the canonical actual value receive_value_as_bytes compares (the decoded
\* val, or rec_field_value when val is no base64), or the exception raised
\* before the comparison
ValueCompared(sender_sdk_name, field_name, on_receive_msg) ==
    LET entry == IF Contains(sender_sdk_name, sUE)
                 THEN TrackerEntry(ue_tracker, sender_sdk_name) ELSE Unset
        got == IF IsRaise(entry) THEN entry
               ELSE ReceivedValue(IF IsUnset(entry) THEN sender_sdk_name ELSE entry.sdk,
                                  field_name, on_receive_msg)
    IN IF IsRaise(got) THEN got
       ELSE IF IsRaise(got.rec_field_value) THEN got.rec_field_value
       ELSE IF ~IsRaise(b64decode(got.val)) THEN b64decode(got.val)
       ELSE IF b64decode(got.val).raise = "binascii.Error" THEN got.rec_field_value
       ELSE b64decode(got.val)

\* the canonical actual value receive_rpc_response_as_bytes compares, or the
\* exception raised before the comparison
ResponseCompared(sdk_name, field_name) ==
    LET got == ReceivedResponse(sdk_name, field_name)
    IN IF IsRaise(got) THEN got
       ELSE IF IsRaise(got.actual_value) THEN got.actual_value
       ELSE IF IsRaise(Decode(got.actual_value)) THEN Decode(got.actual_value)
       ELSE PyBytes(UnicodeEscape(Decode(got.actual_value).str))

\* what C11 says of a comparison of `actual` with `expected_value` that
\* ended with `err`: with the marker on both sides the step passes exactly
\* when the parts after the marker are equal and raises AssertionError
\* otherwise; with the marker absent from either side it raises
\* AssertionError
MarkerRule(actual, expected_value, err) ==
    IF Contains(actual, sMarker) /\ Contains(expected_value, sMarker)
    THEN err = (IF Split(actual, sMarker)[2] = Split(expected_value, sMarker)[2]
                THEN "none" ELSE "AssertionError")
    ELSE err = "AssertionError"

\* C11 as stated: a byte-comparison step that reaches its comparison
\* asserts equality of the parts after "googleapis.com/" only, and when the
\* marker is absent from the actual or the expected value it fails with
\* AssertionError and no other kind of error.
C11_MarkerAbsentIsAssertion ==
    [][/\ \A n \in {sUE1, sUE3}, f \in FieldNames, e \in ExpectedValues, m \in OnReceiveMsgs :
            (receive_value_as_bytes(n, f, e, m) /\ ~IsRaise(ValueCompared(n, f, m)))
                => MarkerRule(ValueCompared(n, f, m).bytes, Strip(e), last'.err)
       /\ \A n \in {sPython, sRust}, f \in FieldNames, e \in ExpectedValues :
            (receive_rpc_response_as_bytes(n, f, e) /\ ~IsRaise(ResponseCompared(n, f)))
                => MarkerRule(ResponseCompared(n, f).bytes, e, last'.err)]_vars

----------------------------------------------------------------------------
(* Specification of the Path Codec alone: the inputs are drawn in the      *)
(* initial state, the actions apply flatten_dict and unflatten_dict.       *)

MaxSegs == 4
MaxNodes == 4

\* the path segments the flat mappings are drawn from
Segments == {<<>>, <<"a">>, <<"b">>}
\* the keys the nested mappings are drawn from
NestedKeys == {<<"a">>, <<"b">>, <<>>, <<"a", ".", "b">>}

\* the non-empty sequences over S of length at most n
ListsUpTo(S, n) == UNION {[1..k -> S] : k \in 1..n}

RECURSIVE ListsOfLists(_, _)
\* the sequences of non-empty sequences over S, at most n elements of S in all
ListsOfLists(S, n) ==
    {<<>>} \cup UNION {{<<p>> \o rest : rest \in ListsOfLists(S, n - Len(p))} :
                        p \in ListsUpTo(S, n)}

Distinct(seq) == \A i, j \in 1..Len(seq) : seq[i] = seq[j] => i = j

IsProperPrefix(p, q) == Len(p) < Len(q) /\ SubSeq(q, 1, Len(p)) = p

PrefixFree(seq) == \A i, j \in 1..Len(seq) : ~IsProperPrefix(seq[i], seq[j])

\* a flat mapping: the i-th path holds the value i
FlatOf(paths) == [i \in 1..Len(paths) |-> <<Join(paths[i], Dot), PyInt(i)>>]

FlatInputs ==
    {FlatOf(paths) : paths \in {ps \in ListsOfLists(Segments, MaxSegs) :
                                    Len(ps) > 0 /\ Distinct(ps)}}

RECURSIVE TreeInsert(_, _, _)
\* the nested mapping d with the leaf `value` added under the keys `keys`
TreeInsert(d, keys, value) ==
    IF Len(keys) = 1 THEN Append(d, <<keys[1], value>>)
    ELSE LET child == IF HasKey(d, keys[1]) THEN Get(d, keys[1]).dict ELSE <<>>
         IN DictSet(d, keys[1], PyDict(TreeInsert(child, Tail(keys), value)))

RECURSIVE TreeOf(_, _, _)
\* the tree whose i-th leaf, under the keys leaves[i], holds the value i
TreeOf(leaves, i, d) ==
    IF i > Len(leaves) THEN d
    ELSE TreeOf(leaves, i + 1, TreeInsert(d, leaves[i], PyInt(i)))

\* tree-shaped nested mappings with no empty intermediate mapping
NestedInputs ==
    {TreeOf(leaves, 1, <<>>) : leaves \in {ls \in ListsOfLists(NestedKeys, MaxNodes) :
                                    Len(ls) > 0 /\ Distinct(ls) /\ PrefixFree(ls)}}

CodecInit ==
    /\ ue_tracker = <<>>
    /\ platform = "linux"
    /\ NoAgents
    /\ IdleContext
    /\ fn_in \in {[flat |-> m] : m \in FlatInputs} \cup {[nested |-> n] : n \in NestedInputs}
    /\ fn_out = Unset

\* unflatten_dict(m), then flatten_dict of its result
UnflattenThenFlatten ==
    /\ "flat" \in DOMAIN fn_in
    /\ IsUnset(fn_out)
    /\ LET u == unflatten_dict(fn_in.flat, Dot)
       IN fn_out' = [unflattened |-> u,
                     flattened |-> IF IsRaise(u) THEN u
                                   ELSE PyDict(flatten_dict(u.dict, <<>>, Dot))]
    /\ UNCHANGED <<env_vars, ctx_vars, pc, sleeps, last, fn_in>>

\* flatten_dict(n), then unflatten_dict of its result
FlattenThenUnflatten ==
    /\ "nested" \in DOMAIN fn_in
    /\ IsUnset(fn_out)
    /\ LET f == flatten_dict(fn_in.nested, <<>>, Dot)
       IN fn_out' = [flattened |-> PyDict(f), unflattened |-> unflatten_dict(f, Dot)]
    /\ UNCHANGED <<env_vars, ctx_vars, pc, sleeps, last, fn_in>>

CodecNext == UnflattenThenFlatten \/ FlattenThenUnflatten

CodecSpec == CodecInit /\ [][CodecNext]_vars

----------------------------------------------------------------------------
(* Claims about the Path Codec (checked under CodecSpec) *)

Unflattened == "flat" \in DOMAIN fn_in /\ ~IsUnset(fn_out)
Flattened == "nested" \in DOMAIN fn_in /\ ~IsUnset(fn_out)

\* two paths of m of which one ends in a leaf at a key where the other
\* expects a mapping
HasPathConflict(m) ==
    \E i, j \in 1..Len(m) : IsProperPrefix(Split(m[i][1], Dot), Split(m[j][1], Dot))

\* C7: unflatten fails whenever the input mapping holds two paths of which
\* one resolves to a leaf at a key and the other expects a mapping at that
\* key, in whichever order the two paths appear.
C7_ConflictFails ==
    (Unflattened /\ HasPathConflict(fn_in.flat)) => IsRaise(fn_out.unflattened)

RECURSIVE PlainKeys(_)
\* every key of the nested mapping, at every depth, is non-empty and holds
\* no separator
PlainKeys(n) ==
    \A i \in 1..Len(n) :
        /\ n[i][1] # <<>>
        /\ ~Contains(n[i][1], Dot)
        /\ IsDict(n[i][2]) => PlainKeys(n[i][2].dict)

NoLeadingSeparator(m) == \A i \in 1..Len(m) : ~MatchAt(m[i][1], Dot, 1)

\* C9 as stated: flatten(unflatten(m)) == m for every path-key mapping m
\* without path-prefix conflicts.
C9_RoundTripAnyPaths ==
    (Unflattened /\ ~HasPathConflict(fn_in.flat)) =>
        PyEq(fn_out.flattened, PyDict(fn_in.flat))

\* C9 (amended): flatten(unflatten(m)) == m for every path-key mapping m
\* without path-prefix conflicts in which no path begins with the separator.
C9_RoundTrip ==
    (Unflattened /\ ~HasPathConflict(fn_in.flat) /\ NoLeadingSeparator(fn_in.flat)) =>
        PyEq(fn_out.flattened, PyDict(fn_in.flat))

\* {"a.a": 1, "a.b": 2} unflattens to one mapping under "a" and flattens back
C9_Witness ==
    /\ Unflattened
    /\ fn_in.flat = << <<(<<"a", ".", "a">>), PyInt(1)>>, <<(<<"a", ".", "b">>), PyInt(2)>> >>
    /\ fn_out.unflattened =
          PyDict(<< <<(<<"a">>), PyDict(<< <<(<<"a">>), PyInt(1)>>, <<(<<"b">>), PyInt(2)>> >>)>> >>)
    /\ fn_out.flattened = PyDict(fn_in.flat)

----------------------------------------------------------------------------
(* Specification of the Value Caster alone: a typed value v is drawn in    *)
(* the initial state and cast(str(v), type) applied, or a scenario literal *)
(* is drawn and cast applied to it.                                        *)

MaxInt == 42

sHello == <<"h", "e", "l", "l", "o">>
sUCodeOK == sUCode \o <<".", "O", "K">>

StrSamples ==
    {<<>>, sHello, <<"4", "2">>, <<"F", "a", "l", "s", "e">>, <<" ", "x">>, sUCodeOK}

LiteralSamples ==
    {<<"4", "2">>, <<"a", "b", "c">>, sHello, <<"1", ".", "5">>, <<>>, <<" ", "-", "7", " ">>,
     sUCodeOK, sUCode, sUCode \o <<".", "N", "O">>}

DataTypes == {"int", "str", "bool", "float", "bytes", "enumCode"}

TypedValues ==
    {[v |-> PyInt(n), data_type |-> "int"] : n \in (0 - MaxInt)..MaxInt}
    \cup {[v |-> PyBool(b), data_type |-> "bool"] : b \in BOOLEAN}
    \cup {[v |-> PyStr(t), data_type |-> "str"] : t \in StrSamples}

Literals ==
    {[value |-> t, data_type |-> d, jsonable |-> j] :
        t \in LiteralSamples, d \in DataTypes, j \in BOOLEAN}

CastInit ==
    /\ ue_tracker = <<>>
    /\ platform = "linux"
    /\ NoAgents
    /\ IdleContext
    /\ fn_in \in TypedValues \cup Literals
    /\ fn_out = Unset

\* cast(str(v), type)
CastOfStr ==
    /\ "v" \in DOMAIN fn_in
    /\ IsUnset(fn_out)
    /\ fn_out' = cast(ToStr(fn_in.v), fn_in.data_type, TRUE)
    /\ UNCHANGED <<env_vars, ctx_vars, pc, sleeps, last, fn_in>>

\* cast(value, data_type, jsonable) of a scenario literal
CastLiteral ==
    /\ "value" \in DOMAIN fn_in
    /\ IsUnset(fn_out)
    /\ fn_out' = cast(fn_in.value, fn_in.data_type, fn_in.jsonable)
    /\ UNCHANGED <<env_vars, ctx_vars, pc, sleeps, last, fn_in>>

CastNext == CastOfStr \/ CastLiteral

CastSpec == CastInit /\ [][CastNext]_vars

CastDone == "v" \in DOMAIN fn_in /\ ~IsUnset(fn_out)

\* C10 as stated: cast(str(v), type) == v for every v of declared type int,
\* bool or str, for bool both v = true and v = false.
C10_RoundTripAll == CastDone => fn_out = fn_in.v

\* C10 (amended): cast(str(v), type) == v for every int v, for the bool
\* true and for every str v that holds no "UCode" reference; cast(str(false),
\* "bool") is true, as every non-empty string is.
C10_RoundTrip ==
    CastDone =>
        /\ IsInt(fn_in.v) => fn_out = fn_in.v
        /\ fn_in.v = PyBool(TRUE) => fn_out = fn_in.v
        /\ fn_in.v = PyBool(FALSE) => fn_out = PyBool(TRUE)
        /\ (IsStr(fn_in.v) /\ ~Contains(fn_in.v.str, sUCode)) => fn_out = fn_in.v

\* cast("42", "int") is 42 and cast("-7", "int") is -7
C10_Witness ==
    /\ CastDone
    /\ fn_in.v \in {PyInt(42), PyInt(0 - 7)}
    /\ fn_out = fn_in.v

====
